---------------------------- MODULE Spec2Model ----------------------------
(***************************************************************************)
(* Model of the CMOSInverter class of cmos_inverter_simulation.py and of   *)
(* process_variation_monte_carlo of examples/basic_demo.py.                *)
(*                                                                         *)
(* Number representation.  Every voltage is an integer number of tenths of *)
(* a volt (Vdd = 5.0 V is 50), so that 0.1*Vdd, 0.9*Vdd, Vdd/2 and the     *)
(* literal 0.4 of the fallback branch are all exact.  A transconductance   *)
(* is an integer number of 50 uA/V^2 (beta_n = 100e-6 is 2).  Device       *)
(* currents are carried DOUBLED (the operators return 2*I) so that the     *)
(* factor 0.5 of the square-law model stays integral; only signs, zeros    *)
(* and equalities of currents are ever used.                               *)
(*                                                                         *)
(* scipy.optimize.fsolve is outside the repository.  It is modelled by its *)
(* documented contract: it either raises, or returns an array whose first  *)
(* element is a root (ier = 1), or returns its last iterate when it made   *)
(* no progress or hit the iteration cap (ier # 1, only a warning, which    *)
(* the module silences), and that iterate may be non-finite.               *)
(***************************************************************************)
EXTENDS Integers, Sequences, FiniteSets

VARIABLES
    params,   \* the nine device attributes of the instance
    crit,     \* Vm, VOL, VOH, VIL, VIH, NML, NMH (+ the branch that set them)
    vtc,      \* the stored curve self.Vin / self.Vout (has = hasattr(self,'Vin'))
    call      \* the last call: its arguments, outcome and result

vars == <<params, crit, vtc, call>>

---------------------------------------------------------------------------
(* Bounds of the model *)

Points == 2          \* samples per generated curve (the code's default is 200)
MaxSweepLen == 2     \* longest param_values list given to parameter_sweep
Margin == 10         \* how far outside [0, Vdd] the root-finder's grid extends

---------------------------------------------------------------------------
(* Python floats: a finite value or NaN; comparisons with NaN are False *)

Fl(v) == [nan |-> FALSE, v |-> v]
NaN == [nan |-> TRUE, v |-> 0]
FLess(a, b) == ~a.nan /\ ~b.nan /\ a.v < b.v

\* builtin min(a, b): b replaces a only if b < a
PyMin(a, b) == IF FLess(b, a) THEN b ELSE a
\* builtin max(a, b): b replaces a only if b > a
PyMax(a, b) == IF FLess(a, b) THEN b ELSE a
Abs(x) == IF x < 0 THEN -x ELSE x

---------------------------------------------------------------------------
(* Device current model (results are 2*I) *)

\* nmos_current whose linear region lost the factor 0.5
nmos_current_NoHalf(p, Vgs, Vds) ==
    IF Vgs <= p.Vtn THEN 0
    ELSE IF Vds >= Vgs - p.Vtn
         THEN p.beta_n * (Vgs - p.Vtn) * (Vgs - p.Vtn)
         ELSE p.beta_n * (2 * (Vgs - p.Vtn) * Vds - 2 * Vds * Vds)

nmos_current(p, Vgs, Vds) ==
    IF Vgs <= p.Vtn THEN 0
    ELSE IF Vds >= Vgs - p.Vtn
         THEN p.beta_n * (Vgs - p.Vtn) * (Vgs - p.Vtn)
         ELSE p.beta_n * (2 * (Vgs - p.Vtn) * Vds - Vds * Vds)

\* pmos_current comparing against Vtp itself instead of abs(Vtp)
pmos_current_NoAbs(p, Vsg, Vsd) ==
    IF Vsg <= p.Vtp THEN 0
    ELSE IF Vsd >= Vsg - p.Vtp
         THEN p.beta_p * (Vsg - p.Vtp) * (Vsg - p.Vtp)
         ELSE p.beta_p * (2 * (Vsg - p.Vtp) * Vsd - Vsd * Vsd)

\* pmos_current with the two terms of the linear region swapped
pmos_current_Swapped(p, Vsg, Vsd) ==
    IF Vsg <= Abs(p.Vtp) THEN 0
    ELSE IF Vsd >= Vsg - Abs(p.Vtp)
         THEN p.beta_p * (Vsg - Abs(p.Vtp)) * (Vsg - Abs(p.Vtp))
         ELSE p.beta_p * (Vsd * Vsd - 2 * (Vsg - Abs(p.Vtp)) * Vsd)

pmos_current(p, Vsg, Vsd) ==
    IF Vsg <= Abs(p.Vtp) THEN 0
    ELSE IF Vsd >= Vsg - Abs(p.Vtp)
         THEN p.beta_p * (Vsg - Abs(p.Vtp)) * (Vsg - Abs(p.Vtp))
         ELSE p.beta_p * (2 * (Vsg - Abs(p.Vtp)) * Vsd - Vsd * Vsd)

current_balance(p, vin, vout) ==
    nmos_current(p, vin, vout) - pmos_current(p, p.Vdd - vin, p.Vdd - vout)

---------------------------------------------------------------------------
(* Inputs *)

\* (Vdd, Vtn, Vtp, beta_n, beta_p) an instance is constructed with; the
\* first is the constructor's default
MakeParams(c) ==
    [Vdd |-> c[1], Vtn |-> c[2], Vtp |-> c[3], beta_n |-> c[4], beta_p |-> c[5],
     CL |-> 10, W_n |-> 2, W_p |-> 4, L |-> 1]
CtorChoices == {MakeParams(c) : c \in {<<50, 10, -10, 2, 1>>, <<30, 7, -7, 2, 1>>}}
ParamChoices ==
    CtorChoices
    \cup {MakeParams(c) : c \in {<<30, 20, -20, 1, 1>>, <<20, 4, -4, 2, 2>>,
                                 <<60, 10, -20, 1, 2>>, <<30, 10, -40, 1, 1>>}}

\* what parameter_sweep may be asked to sweep
SweepValues == [Vdd |-> {30, 60}, Vtn |-> {8}]
SweepNames == DOMAIN SweepValues

\* every parameter record an instance can come to hold
AllParams ==
    ParamChoices
    \cup UNION {{[p EXCEPT !.Vdd = a, !.Vtn = b] :
                    a \in {p.Vdd} \cup SweepValues.Vdd,
                    b \in {p.Vtn} \cup SweepValues.Vtn} : p \in CtorChoices}

---------------------------------------------------------------------------
(* The root-finder *)

SolverKinds == {"converged", "notconverged", "nan", "raise"}
\* what one fsolve call does: its kind and, if it stops early, its last iterate
Converged == [kind |-> "converged", x |-> 0]
Raises == [kind |-> "raise", x |-> 0]
NonFinite == [kind |-> "nan", x |-> 0]
Stalls(x) == [kind |-> "notconverged", x |-> x]
Iterates == {0 - Margin, 20, 70}
Oracles == {Converged, NonFinite, Raises} \cup {Stalls(x) : x \in Iterates}

SolveDom(p) == (0 - Margin) .. (Abs(p.Vdd) + Margin)

\* grid points that are a root of F to within one grid step; F is the
\* solved function tabulated on the solver's grid
NearRoots(F) ==
    {x \in DOMAIN F :
        F[x] = 0 \/ (x + 1 \in DOMAIN F /\ F[x] * F[x + 1] < 0)}

\* the element of roots nearest to x0
Nearest(roots, x0) ==
    CHOOSE r \in roots : \A s \in roots : Abs(r - x0) <= Abs(s - x0)

\* a solve that is granted convergence returns the root nearest to its
\* starting point; if F has no root on the grid it stalls at iterate x
SolveOnGrid(roots, x0, x) ==
    IF roots # {}
    THEN [kind |-> "converged", val |-> Fl(Nearest(roots, x0))]
    ELSE [kind |-> "notconverged", val |-> Fl(x)]

\* fsolve(F, x0)[0]: kind is what actually happened, val the returned float
Fsolve(F, x0, o) ==
    CASE o.kind = "raise" -> [kind |-> "raise", val |-> NaN]
      [] o.kind = "nan" -> [kind |-> "nan", val |-> NaN]
      [] o.kind = "converged" -> SolveOnGrid(NearRoots(F), x0, o.x)
      [] OTHER -> [kind |-> "notconverged", val |-> Fl(o.x)]

---------------------------------------------------------------------------
(* find_vout *)

initial_guess(p, vin) ==
    IF 2 * vin < p.Vdd THEN (9 * p.Vdd) \div 10 ELSE p.Vdd \div 10

\* fsolve(current_balance, initial_guess)[0]
SolveBalance(p, vin, o) ==
    Fsolve([v \in SolveDom(p) |-> current_balance(p, vin, v)],
           initial_guess(p, vin), o)

\* the converged solves, tabulated once (SolveBalance is a function of its
\* arguments; the table only saves recomputing it)
TableVins == (0 - Margin) .. (60 + Margin)
BalanceTable ==
    [k \in {<<p, vin>> : p \in AllParams, vin \in TableVins}
        |-> SolveBalance(k[1], k[2], Converged)]

\* find_vout returning the solver's value unclamped
ClampOrFallback_NoClamp(p, vin, r) ==
    IF r.kind = "raise"
    THEN [kind |-> r.kind, x |-> 0,
          res |-> PyMax(Fl(0), PyMin(Fl(p.Vdd), Fl(p.Vdd - vin))).v]
    ELSE [kind |-> r.kind, x |-> r.val.v,
          res |-> IF r.val.nan THEN p.Vdd + 1 ELSE r.val.v]

\* the try / except of find_vout around the solve whose outcome is r
ClampOrFallback(p, vin, r) ==
    IF r.kind = "raise"
    THEN [kind |-> r.kind, x |-> 0,
          res |-> PyMax(Fl(0), PyMin(Fl(p.Vdd), Fl(p.Vdd - vin))).v]
    ELSE [kind |-> r.kind, x |-> r.val.v,
          res |-> PyMax(Fl(0), PyMin(Fl(p.Vdd), r.val)).v]

\* find_vout as a record: the solver outcome and the value returned
find_vout_call(p, vin, o) ==
    ClampOrFallback(p, vin,
        IF o = Converged /\ p \in AllParams /\ vin \in TableVins
        THEN BalanceTable[<<p, vin>>]
        ELSE SolveBalance(p, vin, o))

find_vout(p, vin, o) == find_vout_call(p, vin, o).res

---------------------------------------------------------------------------
(* Critical points *)

\* the solver outcomes of the find_vout calls made inside find_vm
InnerOracles == {Converged, Raises}

find_vm(p, vin, oi) == find_vout(p, vin, oi) - vin

\* fsolve(find_vm, Vdd/2)[0]
SolveVm(p, oc, oi) ==
    Fsolve([v \in SolveDom(p) |-> find_vm(p, v, oi)], p.Vdd \div 2, oc)

VmTable ==
    [k \in {<<p, oi>> : p \in AllParams, oi \in InnerOracles}
        |-> SolveVm(k[1], Converged, k[2])]

\* calculate_critical_points with the operands of NML exchanged
CriticalPoints_NmlFlipped(p, r) ==
    IF r.kind # "raise"
    THEN [Vm |-> r.val,
          VOL |-> p.Vdd \div 10,
          VOH |-> (9 * p.Vdd) \div 10,
          VIL |-> p.Vtn,
          VIH |-> p.Vdd + p.Vtp,
          NML |-> (p.Vdd \div 10) - p.Vtn,
          NMH |-> ((9 * p.Vdd) \div 10) - (p.Vdd + p.Vtp),
          branch |-> "try"]
    ELSE [Vm |-> Fl(p.Vdd \div 2),
          VOL |-> p.Vdd \div 10,
          VOH |-> (9 * p.Vdd) \div 10,
          VIL |-> p.Vtn,
          VIH |-> p.Vdd + p.Vtp,
          NML |-> 4,
          NMH |-> 4,
          branch |-> "except"]

\* the try / except of calculate_critical_points around the solve whose
\* outcome is r
CriticalPoints(p, r) ==
    IF r.kind # "raise"
    THEN [Vm |-> r.val,
          VOL |-> p.Vdd \div 10,
          VOH |-> (9 * p.Vdd) \div 10,
          VIL |-> p.Vtn,
          VIH |-> p.Vdd + p.Vtp,
          NML |-> p.Vtn - (p.Vdd \div 10),
          NMH |-> ((9 * p.Vdd) \div 10) - (p.Vdd + p.Vtp),
          branch |-> "try"]
    ELSE [Vm |-> Fl(p.Vdd \div 2),
          VOL |-> p.Vdd \div 10,
          VOH |-> (9 * p.Vdd) \div 10,
          VIL |-> p.Vtn,
          VIH |-> p.Vdd + p.Vtp,
          NML |-> 4,
          NMH |-> 4,
          branch |-> "except"]

calculate_critical_points(p, oc, oi) ==
    CriticalPoints(p,
        IF oc = Converged /\ p \in AllParams /\ oi \in InnerOracles
        THEN VmTable[<<p, oi>>]
        ELSE SolveVm(p, oc, oi))

\* the solver outcomes <<outer, inner>> drawn for the
\* calculate_critical_points of a sweep, and of the constructor
CritOracles ==
    {<<Converged, Converged>>, <<Stalls(0 - Margin), Converged>>,
     <<Raises, Converged>>}
CtorOracles ==
    CritOracles \cup {<<Converged, Raises>>, <<NonFinite, Converged>>}

---------------------------------------------------------------------------
(* The stored curve *)

NoParams ==
    [Vdd |-> 0, Vtn |-> 0, Vtp |-> 0, beta_n |-> 0, beta_p |-> 0,
     CL |-> 0, W_n |-> 0, W_p |-> 0, L |-> 0]
\* before the first generate_vtc the instance has no Vin / Vout attribute
NoVtc == [has |-> FALSE, Vin |-> <<>>, Vout |-> <<>>, of |-> NoParams]

\* np.linspace(0, Vdd, points)
linspace(Vdd, points) == [i \in 1..points |-> ((i - 1) * Vdd) \div (points - 1)]

\* ov[i] is the solver outcome of the i-th find_vout; "of" records the
\* parameter values the curve was computed from
generate_vtc(p, ov) ==
    [has |-> TRUE,
     Vin |-> linspace(p.Vdd, Points),
     Vout |-> [i \in 1..Points |->
                  find_vout(p, linspace(p.Vdd, Points)[i], ov[i])],
     of |-> p]

\* the solver outcomes drawn for the points of one generate_vtc: every
\* solve converges, or the solve of one point stalls
CurveOracles ==
    {[i \in 1..Points |-> Converged]}
    \cup {[i \in 1..Points |-> IF i = k THEN Stalls(0 - Margin) ELSE Converged] :
            k \in 1..Points}

---------------------------------------------------------------------------
(* Construction *)

NoCall ==
    [op |-> "init", n |-> 0, a |-> 0, b |-> 0,
     kind |-> "", x |-> 0, res |-> 0, raised |-> FALSE]

\* CMOSInverter(...): stores the nine attributes, then calculate_critical_points
Construct(choices) ==
    /\ params \in choices
    /\ \E o \in CtorOracles :
           crit = calculate_critical_points(params, o[1], o[2])
    /\ vtc = NoVtc
    /\ call = NoCall

Init == Construct(CtorChoices)
InitAny == Construct(ParamChoices)

---------------------------------------------------------------------------
(* Calls of the pure methods *)

GateInputs == {0, 10, 30, 50}
DrainInputs == {0 - 10, 0, 5, 20, 60}

CallNmosCurrent ==
    \E Vgs \in GateInputs, Vds \in DrainInputs :
        /\ call' = [NoCall EXCEPT !.op = "nmos_current", !.a = Vgs, !.b = Vds,
                                  !.res = nmos_current(params, Vgs, Vds)]
        /\ UNCHANGED <<params, crit, vtc>>

CallPmosCurrent ==
    \E Vsg \in GateInputs, Vsd \in DrainInputs :
        /\ call' = [NoCall EXCEPT !.op = "pmos_current", !.a = Vsg, !.b = Vsd,
                                  !.res = pmos_current(params, Vsg, Vsd)]
        /\ UNCHANGED <<params, crit, vtc>>

VinInputs == {0, 10, 15, 20, 25, 30, 50, 60}

CallFindVout ==
    \E vin \in VinInputs, o \in Oracles :
      \E r \in {find_vout_call(params, vin, o)} :
        /\ call' = [NoCall EXCEPT !.op = "find_vout", !.a = vin,
                                  !.kind = r.kind, !.x = r.x, !.res = r.res]
        /\ UNCHANGED <<params, crit, vtc>>

NextCurrent == CallNmosCurrent \/ CallPmosCurrent
SpecCurrent == InitAny /\ [][NextCurrent]_vars

NextSolve == CallFindVout
SpecSolve == InitAny /\ [][NextSolve]_vars

---------------------------------------------------------------------------
(* The instance's methods that store state *)

GenerateVtc ==
    \E ov \in CurveOracles :
        /\ vtc' = generate_vtc(params, ov)
        /\ call' = [NoCall EXCEPT !.op = "generate_vtc"]
        /\ UNCHANGED <<params, crit>>

\* plot_vtc generates a curve only if the instance has none, then draws
\* self.Vin / self.Vout
PlotVtc ==
    \E ov \in CurveOracles :
        /\ vtc' = IF ~vtc.has THEN generate_vtc(params, ov) ELSE vtc
        /\ call' = [NoCall EXCEPT !.op = "plot_vtc"]
        /\ UNCHANGED <<params, crit>>

SeqsUpTo(S, n) == UNION {[1..k -> S] : k \in 0..n}

\* The attributes after one pass of the loop of parameter_sweep over a
\* value: setattr, calculate_critical_points, generate_vtc
SweepPass(p1, oc, oi, ov) ==
    [params |-> p1,
     crit |-> calculate_critical_points(p1, oc, oi),
     vtc |-> generate_vtc(p1, ov)]

\* The loop of parameter_sweep from its i-th value on.  self is the record
\* of the instance's attributes.  failAt = i makes the drawing call of the
\* i-th pass raise (0: nothing raises).  Every pass overwrites the critical
\* points and the curve completely, so the solver outcomes oc, oi, ov are
\* taken to be the same in every pass: the attributes left behind are those
\* of the last pass executed.
RECURSIVE SweepLoop(_, _, _, _, _, _, _, _)
SweepLoop(self, param_name, param_values, i, failAt, oc, oi, ov) ==
    IF i > Len(param_values)
    THEN [self |-> self, raised |-> FALSE]
    ELSE IF failAt = i
         THEN [self |-> SweepPass([self.params EXCEPT
                                      ![param_name] = param_values[i]],
                                  oc, oi, ov),
               raised |-> TRUE]
         ELSE SweepLoop(SweepPass([self.params EXCEPT
                                      ![param_name] = param_values[i]],
                                  oc, oi, ov),
                        param_name, param_values, i + 1, failAt, oc, oi, ov)

\* parameter_sweep without its setattr(self, param_name, original_value)
SweepRestore_NoRestore(r, param_name, original_value, oc, oi) ==
    IF r.raised
    THEN r
    ELSE [self |-> [params |-> r.self.params,
                    crit |-> calculate_critical_points(r.self.params, oc, oi),
                    vtc |-> r.self.vtc],
          raised |-> FALSE]

\* the end of parameter_sweep: r is what the loop left
SweepRestore(r, param_name, original_value, oc, oi) ==
    IF r.raised
    THEN r
    ELSE [self |-> [params |-> [r.self.params EXCEPT
                                   ![param_name] = original_value],
                    crit |-> calculate_critical_points(
                                 [r.self.params EXCEPT
                                     ![param_name] = original_value], oc, oi),
                    vtc |-> r.self.vtc],
          raised |-> FALSE]

\* parameter_sweep that restores the field but keeps the critical points of
\* its last pass (no calculate_critical_points after the restore)
parameter_sweep_StaleCrit(self, param_name, param_values, failAt, oc, oi, ov) ==
    LET r == SweepLoop(self, param_name, param_values, 1, failAt, oc, oi, ov)
    IN  IF r.raised
        THEN r
        ELSE [self |-> [r.self EXCEPT
                           !.params = [@ EXCEPT ![param_name] =
                                                   self.params[param_name]]],
              raised |-> FALSE]

parameter_sweep(self, param_name, param_values, failAt, oc, oi, ov) ==
    SweepRestore(SweepLoop(self, param_name, param_values, 1, failAt,
                           oc, oi, ov),
                 param_name, self.params[param_name], oc, oi)

ParameterSweep ==
    \E param_name \in SweepNames :
      \E param_values \in SeqsUpTo(SweepValues[param_name], MaxSweepLen) :
        \E failAt \in 0..Len(param_values), o \in CritOracles,
           ov \in CurveOracles :
          \E r \in {parameter_sweep([params |-> params, crit |-> crit,
                                     vtc |-> vtc],
                                    param_name, param_values, failAt,
                                    o[1], o[2], ov)} :
                /\ params' = r.self.params
                /\ crit' = r.self.crit
                /\ vtc' = r.self.vtc
                /\ call' = [NoCall EXCEPT !.op = "parameter_sweep",
                                          !.n = Len(param_values),
                                          !.raised = r.raised]

Next == GenerateVtc \/ PlotVtc \/ ParameterSweep
Spec == Init /\ [][Next]_vars

---------------------------------------------------------------------------
(* transient_analysis *)

\* the constructor's defaults
Default == MakeParams(<<50, 10, -10, 2, 1>>)

\* Argument lists the constructor is called with when the load and the
\* geometry are given too (CL in pF, W_n, W_p, L in um).  The constructor
\* has no check, so the lists it accepts include zero, negative and
\* wrongly signed values.
DeviceChoices ==
    {Default,
     [MakeParams(<<33, 5, -5, 4, 2>>) EXCEPT !.CL = 5],
     [Default EXCEPT !.CL = 1, !.L = 50],
     [Default EXCEPT !.CL = 1, !.W_n = 1, !.L = 45],
     [Default EXCEPT !.CL = 0],
     [Default EXCEPT !.L = 0],
     [Default EXCEPT !.Vdd = 0],
     [Default EXCEPT !.Vtp = 10],
     [Default EXCEPT !.beta_n = 0],
     [Default EXCEPT !.beta_n = 0 - 2]}

InitDevice == Construct(DeviceChoices)

\* a fraction with a positive denominator
Frac(n, d) == IF d < 0 THEN [num |-> 0 - n, den |-> 0 - d] ELSE [num |-> n, den |-> d]

\* tau * 1e9 for tau = 2.2 * (W_n / L) * CL / beta_n, as a fraction: with CL
\* in pF and beta_n in units of 50 uA/V^2 it is 44 * W_n * CL / (L * beta_n)
tau_ns(p) == Frac(44 * p.W_n * p.CL, p.L * p.beta_n)

\* 1 / (tau * 1e9), the normalized cutoff handed to butter
cutoff(p) == Frac(tau_ns(p).den, tau_ns(p).num)

\* a digital filter's critical frequency must satisfy 0 < Wn < 1
InRange(Wn) == 0 < Wn.num /\ Wn.num < Wn.den

\* butter(3, Wn, 'low'): designs the filter for an in-range Wn; for any
\* other Wn a scipy that validates raises ValueError, one that does not
\* designs a filter from the out-of-range value
butter(Wn, validates) ==
    IF InRange(Wn) \/ ~validates
    THEN [kind |-> "designed", raised |-> FALSE, Wn |-> Wn]
    ELSE [kind |-> "ValueError", raised |-> TRUE, Wn |-> Wn]

\* transient_analysis(tr, tf): the divisions of line 201 and of line 217
\* raise ZeroDivisionError on a zero divisor; the cutoff goes to butter as
\* computed; nothing is caught.  The waveforms are local to the call and
\* only drawn; the delays reported are the arguments tr and tf.
transient_analysis(p, tr, tf, validates) ==
    IF p.L = 0 \/ p.beta_n = 0 \/ tau_ns(p).num = 0
    THEN [kind |-> "ZeroDivisionError", raised |-> TRUE, Wn |-> Frac(0, 1),
          delays |-> <<>>]
    ELSE [kind |-> butter(cutoff(p), validates).kind,
          raised |-> butter(cutoff(p), validates).raised,
          Wn |-> cutoff(p),
          delays |-> IF butter(cutoff(p), validates).raised
                     THEN <<>> ELSE <<tr, tf>>]

\* tr, tf in tenths of a nanosecond
DelayInputs == {3, 5, 10}

TransientAnalysis ==
    \E tr \in DelayInputs, tf \in DelayInputs, validates \in BOOLEAN :
      \E r \in {transient_analysis(params, tr, tf, validates)} :
        /\ call' = [op |-> "transient_analysis", raised |-> r.raised,
                    kind |-> r.kind, Wn |-> r.Wn, delays |-> r.delays]
        /\ UNCHANGED <<params, crit, vtc>>

NextTransient == TransientAnalysis
SpecTransient == InitDevice /\ [][NextTransient]_vars

---------------------------------------------------------------------------
(* process_variation_monte_carlo (examples/basic_demo.py) *)

\* The Monte Carlo quantities are carried multiplied by MCScale, so that a
\* standard deviation of a tenth of the nominal value divided by 3, and a
\* tenth of it again, stay integral.
MCScale == 300
ZMax == 30           \* largest Gaussian deviate drawn, in tenths of a sigma

nominal_params ==
    [Vdd |-> 50 * MCScale, Vtn |-> 10 * MCScale, Vtp |-> (0 - 10) * MCScale,
     beta_n |-> 2 * MCScale, beta_p |-> 1 * MCScale]
\* the variation fractions, in tenths, in the order the dict yields them
variations == [Vtn |-> 1, Vtp |-> 1, beta_n |-> 2, beta_p |-> 2]
VaryingFields == <<"Vtn", "Vtp", "beta_n", "beta_p">>
n_samples == 100
min_nm_spec == 3 * MCScale

\* np.random.seed(42) fixes the stream of deviates; the model does not know
\* its values: a generator state s fixes the whole stream, whose k-th
\* deviate (in tenths of a sigma) is Deviate(s, k)
Seeds == 0 .. (2 * ZMax)
Deviate(s, k) == ((s + 7 * k) % (2 * ZMax + 1)) - ZMax

\* np.random.normal(0, scale): ValueError for a negative scale, else the
\* deviate times the scale
normal(scale, z) ==
    IF scale < 0
    THEN [raised |-> TRUE, v |-> 0]
    ELSE [raised |-> FALSE, v |-> (z * scale) \div 10]

\* the inner loop over variations.items() from its j-th field on; the k-th
\* deviate of the stream is the next one
RECURSIVE PerturbFields(_, _, _, _)
PerturbFields(sp, j, s, k) ==
    IF j > Len(VaryingFields)
    THEN [raised |-> FALSE, params |-> sp]
    ELSE LET param == VaryingFields[j]
             d == normal((variations[param] * sp[param]) \div 30, Deviate(s, k))
         IN  IF d.raised
             THEN [raised |-> TRUE, params |-> sp]
             ELSE PerturbFields([sp EXCEPT ![param] = @ + d.v], j + 1, s, k + 1)

\* NML and NMH of CMOSInverter(**params): the differences of the levels, or
\* 0.4 when calculate_critical_points took its fallback branch
SampleMargins(sp, fallback) ==
    IF fallback
    THEN [NML |-> 4 * MCScale, NMH |-> 4 * MCScale]
    ELSE [NML |-> sp.Vtn - (sp.Vdd \div 10),
          NMH |-> ((9 * sp.Vdd) \div 10) - (sp.Vdd + sp.Vtp)]

\* The sample loop from its i-th sample on.  Every sample starts from a copy
\* of nominal_params; a draw that raises ends the run; otherwise the sample's
\* margins are appended.  last is the sample built before.
RECURSIVE MonteCarloLoop(_, _, _, _, _, _)
RECURSIVE CollectSample(_, _, _, _, _, _)
MonteCarloLoop(i, s, fallback, last, lows, highs) ==
    IF i > n_samples
    THEN [raised |-> FALSE, params |-> last,
          noise_margins_low |-> lows, noise_margins_high |-> highs]
    ELSE CollectSample(i, s, fallback,
                       PerturbFields(nominal_params, 1, s,
                                     Len(VaryingFields) * (i - 1) + 1),
                       lows, highs)
CollectSample(i, s, fallback, r, lows, highs) ==
    IF r.raised
    THEN [raised |-> TRUE, params |-> r.params,
          noise_margins_low |-> lows, noise_margins_high |-> highs]
    ELSE MonteCarloLoop(i + 1, s, fallback, r.params,
                        Append(lows, SampleMargins(r.params, fallback).NML),
                        Append(highs, SampleMargins(r.params, fallback).NMH))

\* np.sum(np.array(margins) >= min_nm_spec) / n_samples * 100
yield_of(margins) ==
    (Cardinality({i \in 1..Len(margins) : margins[i] >= min_nm_spec}) * 100)
        \div n_samples

\* the yield analysis: yield_nml and yield_nmh, each from its own list
YieldAnalysis(r) ==
    IF r.raised
    THEN <<>>
    ELSE <<yield_of(r.noise_margins_low), yield_of(r.noise_margins_high)>>

process_variation_monte_carlo(s, fallback) ==
    MonteCarloLoop(1, s, fallback, nominal_params, <<>>, <<>>)

\* one call of process_variation_monte_carlo: what it has collected and
\* printed when it is left; params is the sample it built last
ProcessVariationMonteCarlo ==
    \E s \in Seeds, fallback \in BOOLEAN :
      \E r \in {process_variation_monte_carlo(s, fallback)} :
        /\ call' = [op |-> "monte_carlo", raised |-> r.raised,
                    sample |-> r.params,
                    noise_margins_low |-> r.noise_margins_low,
                    noise_margins_high |-> r.noise_margins_high,
                    yields |-> YieldAnalysis(r)]
        /\ UNCHANGED <<params, crit, vtc>>

NextMonteCarlo == ProcessVariationMonteCarlo
SpecMonteCarlo == Init /\ [][NextMonteCarlo]_vars

---------------------------------------------------------------------------
(* Properties *)

\* C1: a parameter_sweep that returns leaves every device parameter,
\* the swept one included, at the value it had before the call.
C1_SweepLeavesParams ==
    [][(call'.op = "parameter_sweep" /\ ~call'.raised) => params' = params]_vars

\* a sweep over a non-empty list has returned
C1_Witness ==
    /\ call.op = "parameter_sweep" /\ ~call.raised /\ call.n > 0
    /\ vtc.has /\ vtc.of # params

\* C2: the swept field holds its original value once parameter_sweep is
\* left, on every exit path, the raising ones included.
C2_RestoredOnEveryExit ==
    [][call'.op = "parameter_sweep" => params' = params]_vars

\* C3: for vin in [0, Vdd], whatever the root-finder produces, find_vout
\* returns a value in [0, Vdd].
C3_VoutClamped ==
    (call.op = "find_vout" /\ 0 <= call.a /\ call.a <= params.Vdd)
        => (0 <= call.res /\ call.res <= params.Vdd)

\* the solver stopped at an iterate outside the rails and find_vout returned
C3_Witness ==
    /\ call.op = "find_vout" /\ 0 <= call.a /\ call.a <= params.Vdd
    /\ call.kind = "notconverged" /\ call.x > params.Vdd
    /\ call.res = params.Vdd

\* the parameter sets the properties call valid; the constructor itself
\* checks nothing
Valid(p) ==
    /\ p.Vdd > 0
    /\ 0 < p.Vtn /\ p.Vtn < p.Vdd
    /\ p.Vtp < 0 /\ Abs(p.Vtp) < p.Vdd
    /\ p.beta_n > 0 /\ p.beta_p > 0

\* the roots, on the solver's grid, of the current balance at input vin
BalanceRoots(p, vin) ==
    NearRoots([v \in SolveDom(p) |-> current_balance(p, vin, v)])

C5_LinearEstimateOnNonConvergence ==
    (call.op = "find_vout" /\ call.kind \in {"notconverged", "nan"})
        => call.res = PyMax(Fl(0), PyMin(Fl(params.Vdd),
                                        Fl(params.Vdd - call.a))).v

\* the levels calculate_critical_points stores on both of its branches
CritLevels ==
    /\ crit.VOL = params.Vdd \div 10
    /\ crit.VOH = (9 * params.Vdd) \div 10
    /\ crit.VIL = params.Vtn
    /\ crit.VIH = params.Vdd + params.Vtp

\* C6 as stated: after every calculate_critical_points, on its normal and
\* on its fallback branch, NML = VIL - VOL and NMH = VOH - VIH.
C6_MarginsOnBothBranches ==
    /\ CritLevels
    /\ crit.NML = crit.VIL - crit.VOL
    /\ crit.NMH = crit.VOH - crit.VIH

\* C6 amended: the levels are stored on both branches; NML = VIL - VOL and
\* NMH = VOH - VIH on the normal branch; NML = NMH = 0.4 on the fallback
\* branch.
C6_MarginsByBranch ==
    /\ CritLevels
    /\ crit.branch = "try" =>
          (crit.NML = crit.VIL - crit.VOL /\ crit.NMH = crit.VOH - crit.VIH)
    /\ crit.branch = "except" => (crit.NML = 4 /\ crit.NMH = 4)

\* a sweep has recomputed the critical points through the fallback branch,
\* and the margins are not the differences of the levels
C6_Witness ==
    /\ call.op = "parameter_sweep" /\ ~call.raised
    /\ crit.branch = "except"
    /\ crit.NML # crit.VIL - crit.VOL

\* C7: for valid parameters the stored Vm lies strictly between 0 and Vdd,
\* whatever the root-find returned.
C7_VmInsideRails ==
    Valid(params) => (~crit.Vm.nan /\ 0 < crit.Vm.v /\ crit.Vm.v < params.Vdd)

\* the three-region model of the spec, on the overdrive (doubled current)
ThreeRegion(beta, overdrive, Vds) ==
    IF overdrive <= 0 THEN 0
    ELSE IF Vds >= overdrive THEN beta * overdrive * overdrive
    ELSE beta * (2 * overdrive * Vds - Vds * Vds)

\* C8: nmos_current and pmos_current are the same three-region model, on
\* the overdrive Vgs - Vtn and Vsg - |Vtp|, defined for every input pair.
C8_ThreeRegions ==
    /\ call.op = "nmos_current" =>
          call.res = ThreeRegion(params.beta_n, call.a - params.Vtn, call.b)
    /\ call.op = "pmos_current" =>
          call.res = ThreeRegion(params.beta_p, call.a - Abs(params.Vtp),
                                 call.b)

\* nmos_current was evaluated in its linear region
C8_Witness ==
    /\ call.op = "nmos_current"
    /\ call.a > params.Vtn /\ 0 < call.b /\ call.b < call.a - params.Vtn
    /\ call.res > 0

\* C9 as stated: the device current is non-negative for every gate voltage
\* and every drain-source voltage, the negative ones included.
C9_CurrentNonNegative ==
    (call.op \in {"nmos_current", "pmos_current"}
        /\ params.beta_n > 0 /\ params.beta_p > 0)
        => call.res >= 0

\* C9 amended: the device current is non-negative for every gate voltage
\* and every drain-source voltage that is not negative.
C9_CurrentNonNegativeForward ==
    (call.op \in {"nmos_current", "pmos_current"}
        /\ params.beta_n > 0 /\ params.beta_p > 0 /\ call.b >= 0)
        => call.res >= 0

\* pmos_current was evaluated in its linear region at a positive Vsd
C9_Witness ==
    /\ call.op = "pmos_current"
    /\ call.a > Abs(params.Vtp) /\ 0 < call.b
    /\ call.b < call.a - Abs(params.Vtp)
    /\ call.res > 0

\* C10: the curve plot_vtc draws was computed from the parameter values the
\* instance holds when it is drawn.
C10_CurveOfCurrentParams ==
    call.op = "plot_vtc" => (vtc.has /\ vtc.of = params)

\* C11: in every state (after the constructor, and after any sequence of
\* parameter_sweep and curve calls) the stored VOL, VOH, VIL, VIH, NML, NMH
\* and Vm are what calculate_critical_points yields, for some outcome of its
\* root-find, on the parameter values the instance holds in that state.
C11_CritOfCurrentParams ==
    \E o \in CtorOracles :
        crit = calculate_critical_points(params, o[1], o[2])

\* a sweep over other values has returned and the critical points are the
\* ones of the restored parameters
C11_Witness ==
    /\ call.op = "parameter_sweep" /\ ~call.raised /\ call.n > 0
    /\ vtc.has /\ vtc.of.Vdd # params.Vdd
    /\ crit = calculate_critical_points(params, Converged, Converged)

\* what one perturbation of field f from its nominal value can add
Perturbations(f) ==
    {(z * ((variations[f] * nominal_params[f]) \div 30)) \div 10 :
        z \in (0 - ZMax) .. ZMax}

\* C12: when the Monte Carlo run is left, every varying field of the sample
\* it built is the nominal value plus one Gaussian perturbation of standard
\* deviation fraction * nominal / 3, no draw has failed, and exactly
\* n_samples samples have been collected.
C12_PerturbsNominalAndCompletes ==
    call.op = "monte_carlo" =>
        /\ \A j \in 1..Len(VaryingFields) :
              call.sample[VaryingFields[j]] - nominal_params[VaryingFields[j]]
                  \in Perturbations(VaryingFields[j])
        /\ ~call.raised
        /\ Len(call.noise_margins_low) = n_samples
        /\ Len(call.noise_margins_high) = n_samples

\* the percentage of samples whose NML and NMH both meet the specification
JointYield(lows, highs) ==
    (Cardinality({i \in 1..Len(lows) :
                     lows[i] >= min_nm_spec /\ highs[i] >= min_nm_spec}) * 100)
        \div n_samples

\* C13: when the Monte Carlo run is left it has reported a yield, and what
\* it reports as yield is the fraction of samples whose NML and NMH both
\* meet the minimum margin.
C13_YieldIsJointFraction ==
    call.op = "monte_carlo" =>
        /\ call.yields # <<>>
        /\ \A j \in 1..Len(call.yields) :
              call.yields[j] = JointYield(call.noise_margins_low,
                                          call.noise_margins_high)

\* the invariant the spec places on the device parameters
ParamsInvariant(p) ==
    /\ p.Vtn > 0 /\ p.Vtp < 0 /\ p.Vdd > 0
    /\ p.beta_n > 0 /\ p.beta_p > 0 /\ p.CL > 0

\* C14: for every valid parameter set (positive geometry included), a
\* transient_analysis designs its filter with a cutoff inside (0, 1) and
\* raises nothing.
C14_CutoffClamped ==
    (call.op = "transient_analysis" /\ ParamsInvariant(params)
        /\ Valid(params) /\ params.W_n > 0 /\ params.L > 0)
        => (~call.raised /\ call.kind = "designed" /\ InRange(call.Wn))

\* C15: no instance exists whose parameters violate Vtn > 0, Vtp < 0,
\* Vdd > 0, betas > 0, CL > 0: constructing one with such a value fails.
C15_NoInvalidInstance ==
    ParamsInvariant(params)

=============================================================================
